---------------------------- MODULE Spec2Model ----------------------------
(***************************************************************************)
(* State-machine model of the portfolio site's stateful pieces:            *)
(*   - ThemeProvider (theme / language preference store, persisted to      *)
(*     localStorage and mirrored onto document.documentElement);           *)
(*   - useScrollTrigger (scroll threshold tracker, coalesced through       *)
(*     requestAnimationFrame);                                             *)
(*   - useInView (viewport reveal tracker over IntersectionObserver);      *)
(*   - the pure helpers localize, useTranslation().t, buildRepeatedSlides; *)
(*   - ContactPage (form validation, mail draft, status timers);           *)
(*   - FloatingSlideshow (autoplay interval, hover, collapse, slides memo);*)
(*   - PortfolioPage (category filter and Load More paging);               *)
(*   - ProjectDetailsPage (getProjectById lookup, hooks of a render).      *)
(* Each component has its own specification; the variables of the other    *)
(* components stay unchanged under it.                                     *)
(***************************************************************************)
EXTENDS Integers, Sequences, FiniteSets, TLC

VARIABLES
    \* ---- ThemeProvider ----
    theme,        \* useState value of the last committed render
    language,     \* useState value of the last committed render
    queue,        \* state updates enqueued by setTheme / setLanguage, not yet rendered
    pc,           \* "effect1" | "effect2" | "idle" | "crashed"
    error,        \* an effect of the current commit has thrown
    storage,      \* localStorage entries 'theme' and 'language'
    storageMode,  \* "ok" | "disabled" (every access throws) | "full" (setItem may throw)
    doc,          \* document.documentElement: className, dir, lang
    storage0,     \* history: localStorage as it was when the provider mounted
    initialized,  \* history: the mount effects and the render they caused are done
    base,         \* history: theme and language when initialization completed
    calls,        \* history: toggleTheme / toggleLanguage calls since initialization
    reloads,      \* history: number of fresh providers mounted on the same storage
    expect,       \* history: the previous provider's theme, language and calls at reload
    \* ---- useScrollTrigger ----
    triggered,    \* useState<boolean>
    ticking,      \* ticking.current
    threshold,    \* the threshold argument of the latest render
    scrollY,      \* window.scrollY
    frames,       \* requestAnimationFrame callbacks not yet run, oldest first
    listeners,    \* 'scroll' listeners registered on window
    gen,          \* number of times the effect has run (activations)
    spc,          \* "effect" (effect pending) | "active" | "unmounted"
    dropped,      \* history: notifications ignored since the pending frame was scheduled
    lastDropped,  \* history: value of dropped when the last frame ran
    lastFrame,    \* history: the last frame callback that ran
    \* ---- useInView ----
    inView,       \* useState(false)
    rvOpts,       \* the options argument of the latest render
    node,         \* ref.current
    observers,    \* IntersectionObservers that observe something or hold queued entries
    rpc,          \* "effect" (effect pending) | "active" | "unmounted"
    frozen,       \* history: the elements a once-callback has seen intersecting
    leftSeen,     \* history: a callback handled a 'left' entry while inView was true
    alwaysOnce,   \* history: once has been true in every render so far
    flips,        \* history: changes of inView made by callbacks, counted to MaxFlips
    \* ---- pure helpers (localize, t, buildRepeatedSlides) ----
    callArgs,     \* the arguments of the call
    callResult,   \* its return value
    callState,    \* "none" | "called" | "returned"
    \* ---- ContactPage ----
    formData,     \* useState: name, email, subject, message
    status,       \* useState: the status message, none when null; by = the submit it belongs to
    timers,       \* setTimeout callbacks not yet run, in creation order, with the time left
    href,         \* window.location.href
    opens,        \* history: number of mail drafts opened
    submits,      \* history: number of submits handled
    \* ---- FloatingSlideshow ----
    collapsed,    \* useState, initialised from localStorage
    isPlaying,    \* useState(true)
    emblaApi,     \* the carousel instance, 0 while there is none
    timerRef,     \* timerRef.current, 0 for null
    intervals,    \* ids of the setInterval timers that are active
    hovering,     \* the pointer is inside the expanded slideshow
    fpc,          \* "mounted" | "unmounted"
    slideIndex,   \* the slide the carousel shows
    ticked,       \* history: an autoplay interval callback has run
    slideStore,   \* localStorage entry 'portfolio_slideshow_collapsed'
    \* ---- PortfolioPage ----
    activeFilter, \* useState<FilterKey>('all')
    visibleCount, \* useState<number>(PAGE_SIZE)
    allProjects,  \* the projects collection of data/projects
    ppc,          \* "effect" (reset effect pending) | "idle" | "unmounted"
    loadClicks,   \* history: Load More clicks since the active filter last changed
    totalClicks,  \* history: Load More clicks since mount, counted to MaxClicks
    \* ---- ProjectDetailsPage ----
    routeParam,   \* params.id of the latest render, a string of characters
    project,      \* getProjectById(id) of the latest render
    pageView,     \* "details" | "not-found" | "crashed" (the render threw)
    hooksRun,     \* number of hooks the latest render called
    hooksPrev,    \* number of hooks the render before it called, in the same instance
    lightboxSrc   \* useState: the project whose image the lightbox shows, 0 for null

prefsVars == <<theme, language, queue, pc, error, storage, storageMode, doc,
               storage0, initialized, base, calls, reloads, expect>>
scrollVars == <<triggered, ticking, threshold, scrollY, frames, listeners, gen,
                spc, dropped, lastDropped, lastFrame>>
revealVars == <<inView, rvOpts, node, observers, rpc, frozen, leftSeen,
                alwaysOnce, flips>>
callVars == <<callArgs, callResult, callState>>
contactVars == <<formData, status, timers, href, opens, submits>>
slideshowVars == <<collapsed, isPlaying, emblaApi, timerRef, intervals,
    hovering, fpc, slideIndex, ticked, slideStore>>
portfolioVars == <<activeFilter, visibleCount, allProjects, ppc, loadClicks,
    totalClicks>>
detailsVars == <<routeParam, project, pageView, hooksRun, hooksPrev,
    lightboxSrc>>
vars == <<prefsVars, scrollVars, revealVars, callVars,
         contactVars, slideshowVars, portfolioVars, detailsVars>>

\* What every step of one component leaves alone.
notPrefs == <<scrollVars, revealVars, callVars, contactVars,
    slideshowVars, portfolioVars, detailsVars>>
notScroll == <<prefsVars, revealVars, callVars, contactVars,
    slideshowVars, portfolioVars, detailsVars>>
notReveal == <<prefsVars, scrollVars, callVars, contactVars,
    slideshowVars, portfolioVars, detailsVars>>
notCall == <<prefsVars, scrollVars, revealVars, contactVars,
    slideshowVars, portfolioVars, detailsVars>>
notContact == <<prefsVars, scrollVars, revealVars, callVars,
    slideshowVars, portfolioVars, detailsVars>>
notSlideshow == <<prefsVars, scrollVars, revealVars, callVars,
    contactVars, portfolioVars, detailsVars>>
notPortfolio == <<prefsVars, scrollVars, revealVars, callVars,
    contactVars, slideshowVars, detailsVars>>
notDetails == <<prefsVars, scrollVars, revealVars, callVars,
    contactVars, slideshowVars, portfolioVars>>

-----------------------------------------------------------------------------
(* Bounds of the model *)

MaxQueue == 2        \* state updates batched into one render
MaxCalls == 3        \* toggle calls per field that are counted
MaxReloads == 1      \* fresh providers mounted on the same storage
MaxActivations == 2  \* runs of the useScrollTrigger effect
MaxDropped == 2      \* ignored scroll notifications that are counted
MaxBatch == 2        \* intersection entries queued for one observer callback
MaxFlips == 3        \* changes of inView that are counted
MaxItems == 3        \* images in the argument of buildRepeatedSlides
MaxTimes == 3        \* repetitions asked of buildRepeatedSlides
MaxSubmits == 3      \* submits of the contact form
SlideCount == 3      \* slides in the floating slideshow
MaxProjects == 20    \* projects in the collection
MaxClicks == 3       \* Load More clicks since mount that are counted
MaxParamLen == 2     \* characters of a route parameter

-----------------------------------------------------------------------------
(* ThemeProvider *)

\* localStorage.getItem returns null for a missing key.
Null == "<null>"

\* Strings a 'theme' / 'language' entry may hold when the provider mounts:
\* missing, empty, the two valid values, and a foreign value.
ThemeEntries == {Null, "", "light", "dark", "blue"}
LanguageEntries == {Null, "", "en", "ar", "fr"}

\* JavaScript truthiness of getItem's result: null and "" are falsy.
Truthy(v) == v # Null /\ v # ""

\* The updater of toggleTheme, prev => prev === 'light' ? 'dark' : 'light'.
ThemeUpdater(prev) == IF prev = "light" THEN "dark" ELSE "light"

\* The updater of toggleLanguage, prev => prev === 'en' ? 'ar' : 'en'.
LanguageUpdater(prev) == IF prev = "en" THEN "ar" ELSE "en"

\* One queued update applied to a state [theme, language].
ApplyUpdate(s, u) ==
    IF u.field = "theme"
    THEN [s EXCEPT !.theme = IF u.op = "set" THEN u.val ELSE ThemeUpdater(@)]
    ELSE [s EXCEPT !.language = IF u.op = "set" THEN u.val ELSE LanguageUpdater(@)]

\* React processes the queued updates in order at the next render.
RECURSIVE ApplyQueue(_, _)
ApplyQueue(s, q) ==
    IF q = <<>> THEN s ELSE ApplyQueue(ApplyUpdate(s, Head(q)), Tail(q))

\* if (savedTheme) setTheme(savedTheme); if (savedLanguage) setLanguage(savedLanguage);
LoadUpdates(st) ==
    (IF Truthy(st.theme)
     THEN <<[field |-> "theme", op |-> "set", val |-> st.theme]>> ELSE <<>>)
    \o
    (IF Truthy(st.language)
     THEN <<[field |-> "language", op |-> "set", val |-> st.language]>> ELSE <<>>)

\* Mutant of DocFor: the direction test inverted.
DocForDirInverted(t, l) ==
    [className |-> t, dir |-> IF l = "ar" THEN "ltr" ELSE "rtl", lang |-> l]

\* document.documentElement after the apply effect's three assignments.
DocFor(t, l) ==
    [className |-> t, dir |-> IF l = "ar" THEN "rtl" ELSE "ltr", lang |-> l]

\* Mutant of StorageAfter: the setItem('language', ...) call left out.
StorageAfterThemeOnly(st, t, l, n) ==
    IF n = 0 THEN st ELSE [st EXCEPT !.theme = t]

\* localStorage after n of the apply effect's two setItem calls succeeded
\* (the first call that throws aborts the effect).
StorageAfter(st, t, l, n) ==
    IF n = 0 THEN st
    ELSE IF n = 1 THEN [st EXCEPT !.theme = t]
    ELSE [theme |-> t, language |-> l]

\* How many of the two setItem calls can succeed in a storage mode.
WritesPossible(mode) ==
    IF mode = "ok" THEN {2} ELSE IF mode = "disabled" THEN {0} ELSE {0, 1, 2}

\* The state after the first render: useState('light'), useState('en').
InitPrefs ==
    /\ theme = "light"
    /\ language = "en"
    /\ queue = <<>>
    /\ pc = "effect1"
    /\ error = FALSE
    /\ storage \in [theme : ThemeEntries, language : LanguageEntries]
    /\ storageMode \in {"ok", "disabled", "full"}
    /\ doc = [className |-> "", dir |-> "", lang |-> ""]
    /\ storage0 = storage
    /\ initialized = FALSE
    /\ base = [theme |-> Null, language |-> Null]
    /\ calls = [theme |-> 0, language |-> 0]
    /\ reloads = 0
    /\ expect = [theme |-> Null, language |-> Null, calls |-> calls]

\* History: initialization is complete once the provider is idle with no
\* update pending; base records the state at that moment.
Settle(pcNext, queueNext, t, l) ==
    IF ~initialized /\ pcNext = "idle" /\ queueNext = <<>>
    THEN initialized' = TRUE /\ base' = [theme |-> t, language |-> l]
    ELSE UNCHANGED <<initialized, base>>

\* The mount effect (deps []): reads both entries and enqueues the saved values.
\* getItem throws when storage is disabled; React still runs the other effect
\* of the commit and then surfaces the error.
LoadEffect ==
    /\ pc = "effect1"
    /\ IF storageMode = "disabled"
       THEN error' = TRUE /\ queue' = queue
       ELSE error' = error /\ queue' = queue \o LoadUpdates(storage)
    /\ pc' = "effect2"
    /\ UNCHANGED <<theme, language, storage, storageMode, doc, storage0,
                   initialized, base, calls, reloads, expect>>
    /\ UNCHANGED notPrefs

\* What the apply effect does with the rendered theme t and language l, of
\* whose two setItem calls n succeed.
ApplyBody(t, l, n) ==
    /\ doc' = DocFor(t, l)
    /\ storage' = StorageAfter(storage, t, l, n)
    /\ error' = (error \/ n < 2)
    /\ pc' = IF error' THEN "crashed" ELSE "idle"

\* The apply effect (deps [theme, language]): runs with the values of the
\* render it belongs to, after the mount effect when both are pending.
ApplyEffect ==
    /\ pc = "effect2"
    /\ \E n \in WritesPossible(storageMode) : ApplyBody(theme, language, n)
    /\ Settle(pc', queue, theme, language)
    /\ UNCHANGED <<theme, language, queue, storageMode, storage0, calls,
                   reloads, expect>>
    /\ UNCHANGED notPrefs

\* A render that processes the queued updates; the apply effect is scheduled
\* when theme or language changed.
Render ==
    /\ pc = "idle"
    /\ queue # <<>>
    /\ LET s == ApplyQueue([theme |-> theme, language |-> language], queue)
       IN /\ theme' = s.theme
          /\ language' = s.language
          /\ pc' = IF s.theme # theme \/ s.language # language
                   THEN "effect2" ELSE "idle"
          /\ Settle(pc', <<>>, s.theme, s.language)
    /\ queue' = <<>>
    /\ UNCHANGED <<error, storage, storageMode, doc, storage0, calls, reloads,
                   expect>>
    /\ UNCHANGED notPrefs

\* toggleTheme(): setTheme(prev => ...), called from a click handler.
toggleTheme ==
    /\ pc = "idle"
    /\ initialized
    /\ Len(queue) < MaxQueue
    /\ calls.theme < MaxCalls
    /\ queue' = Append(queue, [field |-> "theme", op |-> "toggle", val |-> Null])
    /\ calls' = [calls EXCEPT !.theme = @ + 1]
    /\ UNCHANGED <<theme, language, pc, error, storage, storageMode, doc,
                   storage0, initialized, base, reloads, expect>>
    /\ UNCHANGED notPrefs

\* toggleLanguage(): setLanguage(prev => ...), called from a click handler.
toggleLanguage ==
    /\ pc = "idle"
    /\ initialized
    /\ Len(queue) < MaxQueue
    /\ calls.language < MaxCalls
    /\ queue' = Append(queue, [field |-> "language", op |-> "toggle", val |-> Null])
    /\ calls' = [calls EXCEPT !.language = @ + 1]
    /\ UNCHANGED <<theme, language, pc, error, storage, storageMode, doc,
                   storage0, initialized, base, reloads, expect>>
    /\ UNCHANGED notPrefs

\* The page is reloaded: a fresh ThemeProvider mounts on the same localStorage.
Reload ==
    /\ pc = "idle"
    /\ queue = <<>>
    /\ reloads < MaxReloads
    /\ theme' = "light"
    /\ language' = "en"
    /\ pc' = "effect1"
    /\ doc' = [className |-> "", dir |-> "", lang |-> ""]
    /\ storage0' = storage
    /\ initialized' = FALSE
    /\ base' = [theme |-> Null, language |-> Null]
    /\ expect' = [theme |-> theme, language |-> language, calls |-> calls]
    /\ calls' = [theme |-> 0, language |-> 0]
    /\ reloads' = reloads + 1
    /\ UNCHANGED <<queue, error, storage, storageMode>>
    /\ UNCHANGED notPrefs

-----------------------------------------------------------------------------
(* useScrollTrigger *)

\* export function useScrollTrigger(threshold = 10)
DefaultThreshold == 10

\* const visible = useScrollTrigger(400)
BackToTopThreshold == 400

Thresholds == {DefaultThreshold, BackToTopThreshold}

\* Scroll offsets around both thresholds.
ScrollYs == {10, 11, 399, 400, 401}

\* Mutant of Evaluate: >= in place of >.
EvaluateAtLeast(y, thr) == y >= thr

\* setTriggered(y > threshold)
Evaluate(y, thr) == y > thr

\* const y = window.scrollY || window.pageYOffset, read when the frame runs.
FrameY(f) == scrollY

\* Mutant of onScroll: the ticking guard left out.
onScrollUnguarded(c, y, by) ==
    /\ ticking' = TRUE
    /\ frames' = Append(frames, [thr |-> c.thr, gen |-> c.gen, y0 |-> y, by |-> by])
    /\ dropped' = 0

\* onScroll of the effect closure c (its threshold and activation), called
\* when the scroll offset is y: returns while a frame is pending, otherwise
\* sets ticking and requests a frame.  by records who called it.
onScroll(c, y, by) ==
    IF ticking
    THEN /\ UNCHANGED <<ticking, frames>>
         /\ dropped' = IF dropped < MaxDropped THEN dropped + 1 ELSE dropped
    ELSE /\ ticking' = TRUE
         /\ frames' = Append(frames, [thr |-> c.thr, gen |-> c.gen, y0 |-> y, by |-> by])
         /\ dropped' = 0

\* Mutant of InitialEvaluation: the effect only registers the listener.
NoInitialEvaluation(c) == UNCHANGED <<ticking, frames, dropped>>

\* The effect's own call onScroll() before it registers the listener.
InitialEvaluation(c) == onScroll(c, scrollY, "activate")

\* return () => window.removeEventListener('scroll', onScroll), for the
\* listener of activation g.
Cleanup(ls, g) == {l \in ls : l.gen # g}

\* History: no frame callback has run yet.
NoFrame == [thr |-> 0, y0 |-> 0, by |-> "none", y |-> 0, mounted |-> FALSE]

\* The state after the first render: useState(false), useRef(false), the
\* effect not yet run.
InitScroll ==
    /\ triggered = FALSE
    /\ ticking = FALSE
    /\ threshold \in Thresholds
    /\ scrollY \in ScrollYs
    /\ frames = <<>>
    /\ listeners = {}
    /\ gen = 0
    /\ spc = "effect"
    /\ dropped = 0
    /\ lastDropped = 0
    /\ lastFrame = NoFrame

\* The effect (deps [threshold]) runs: the previous activation's cleanup,
\* then onScroll() once and addEventListener.
Activate ==
    /\ spc = "effect"
    /\ gen' = gen + 1
    /\ LET c == [thr |-> threshold, gen |-> gen + 1]
       IN /\ InitialEvaluation(c)
          /\ listeners' = Cleanup(listeners, gen) \cup {c}
    /\ spc' = "active"
    /\ UNCHANGED <<triggered, threshold, scrollY, lastDropped, lastFrame>>
    /\ UNCHANGED notScroll

\* The component re-renders with another threshold: the effect is pending
\* again, the old listener stays registered until the effect runs.
ChangeThreshold ==
    /\ spc = "active"
    /\ gen < MaxActivations
    /\ \E t \in Thresholds \ {threshold} : threshold' = t
    /\ spc' = "effect"
    /\ UNCHANGED <<triggered, ticking, scrollY, frames, listeners, gen, dropped,
                   lastDropped, lastFrame>>
    /\ UNCHANGED notScroll

\* The window scrolls to y and delivers 'scroll' to the registered listener.
Scroll ==
    /\ \E y \in ScrollYs :
        /\ scrollY' = y
        /\ IF listeners = {}
           THEN UNCHANGED <<ticking, frames, dropped>>
           ELSE onScroll(CHOOSE c \in listeners : TRUE, y, "scroll")
    /\ UNCHANGED <<triggered, threshold, listeners, gen, spc, lastDropped, lastFrame>>
    /\ UNCHANGED notScroll

\* The browser runs the oldest requested animation frame callback.  React
\* discards setTriggered once the component has unmounted.
Frame ==
    /\ frames # <<>>
    /\ LET f == Head(frames)
       IN /\ triggered' = IF spc # "unmounted"
                          THEN Evaluate(FrameY(f), f.thr) ELSE triggered
          /\ lastFrame' = [thr |-> f.thr, y0 |-> f.y0, by |-> f.by,
                           y |-> FrameY(f), mounted |-> spc # "unmounted"]
    /\ frames' = Tail(frames)
    /\ ticking' = FALSE
    /\ lastDropped' = dropped
    /\ dropped' = 0
    /\ UNCHANGED <<threshold, scrollY, listeners, gen, spc>>
    /\ UNCHANGED notScroll

\* The component unmounts: the effect's cleanup removes the listener.
Unmount ==
    /\ spc \in {"active", "effect"}
    /\ listeners' = Cleanup(listeners, gen)
    /\ spc' = "unmounted"
    /\ UNCHANGED <<triggered, ticking, threshold, scrollY, frames, gen, dropped,
                   lastDropped, lastFrame>>
    /\ UNCHANGED notScroll

-----------------------------------------------------------------------------
(* useInView *)

\* options: Options = { threshold: 0.15, once: true }; thresholds in hundredths.
DefaultRevealThreshold == 15

\* The threshold IntersectionObserver uses when its init has none.
ObserverDefaultThreshold == 0

\* A threshold callers pass: useInView({ threshold: 0.1, once: true }).
CallerThreshold == 10

\* The elements the ref can be attached to, and ref.current = null.
Nodes == {"a", "b"}
NoNode == "<none>"

\* The options argument: not given, or an object with or without each field.
NoArg == [given |-> FALSE, hasThr |-> FALSE, thr |-> 0, hasOnce |-> FALSE, once |-> FALSE]
RvArgs ==
    {NoArg} \cup
    {[given |-> TRUE, hasThr |-> ht, thr |-> t, hasOnce |-> ho, once |-> o] :
        ht \in BOOLEAN, t \in {0, CallerThreshold, DefaultRevealThreshold},
        ho \in BOOLEAN, o \in BOOLEAN}

\* Arguments in normal form: a missing field carries no value.
WellFormedArgs ==
    {a \in RvArgs : (a.hasThr <=> a.thr # 0) /\ (~a.hasOnce => ~a.once)}

\* The default parameter: the whole object is replaced only when no argument
\* is passed.
Options(a) ==
    IF a.given THEN a
    ELSE [given |-> TRUE, hasThr |-> TRUE, thr |-> DefaultRevealThreshold,
          hasOnce |-> TRUE, once |-> TRUE]

\* const { once = true, ...observerOptions } = options
OnceOf(a) == IF Options(a).hasOnce THEN Options(a).once ELSE TRUE

\* observerOptions.threshold as IntersectionObserver takes it.
ThresholdOf(a) ==
    IF Options(a).hasThr THEN Options(a).thr ELSE ObserverDefaultThreshold

\* The effect's dependencies that the model varies: threshold and once.
Deps(a) == <<Options(a).hasThr, Options(a).thr, OnceOf(a)>>

\* Mutant of HandleEntry: the else branch without its !once test.
HandleEntryAlwaysTracks(o, r, e) ==
    IF e.flag
    THEN [inView |-> TRUE,
          targets |-> IF o.once THEN r.targets \ {e.target} ELSE r.targets]
    ELSE [r EXCEPT !.inView = FALSE]

\* The observer callback on one entry e, from r = [inView, targets]:
\* isIntersecting sets true and, under once, unobserves the target; otherwise
\* false is set unless once.
HandleEntry(o, r, e) ==
    IF e.flag
    THEN [inView |-> TRUE,
          targets |-> IF o.once THEN r.targets \ {e.target} ELSE r.targets]
    ELSE IF ~o.once THEN [r EXCEPT !.inView = FALSE] ELSE r

\* Mutant of HandleEntries: the entries handled last to first.
RECURSIVE HandleEntriesReversed(_, _, _)
HandleEntriesReversed(o, r, es) ==
    IF es = <<>> THEN r
    ELSE HandleEntry(o, HandleEntriesReversed(o, r, Tail(es)), Head(es))

\* entries.forEach(...): the entries in the order reported.
RECURSIVE HandleEntries(_, _, _)
HandleEntries(o, r, es) ==
    IF es = <<>> THEN r ELSE HandleEntries(o, HandleEntry(o, r, Head(es)), Tail(es))

\* Mutant of Disconnected: the cleanup forgets to disconnect.
NotDisconnected(o) == [o EXCEPT !.current = FALSE]

\* io.disconnect(): the observer stops observing every target and delivers
\* nothing more.
Disconnected(o) ==
    [o EXCEPT !.targets = {}, !.queue = <<>>, !.current = FALSE]

\* The observers after the cleanup of the last effect run: its observer, if
\* it created one, is disconnected.
CleanupObservers(os) ==
    {IF o.current THEN Disconnected(o) ELSE o : o \in os}

\* Observers that still observe something or still have entries to deliver,
\* and the one the last effect run holds.
Alive(os) == {o \in os : o.current \/ o.targets # {} \/ o.queue # <<>>}

\* new IntersectionObserver(callback, observerOptions); io.observe(el)
NewObserver(a, el) ==
    [current |-> TRUE, once |-> OnceOf(a), thr |-> ThresholdOf(a),
     targets |-> {el}, queue |-> <<>>]

\* The state after the first render: useState(false); the ref callback has
\* run if the element was rendered.
InitReveal ==
    /\ inView = FALSE
    /\ rvOpts \in WellFormedArgs
    /\ node \in Nodes \cup {NoNode}
    /\ observers = {}
    /\ rpc = "effect"
    /\ frozen = {}
    /\ leftSeen = FALSE
    /\ alwaysOnce = OnceOf(rvOpts)
    /\ flips = 0

\* The effect runs: the previous run's cleanup (io.disconnect()), then, if
\* ref.current is an element, a new observer observing it.
RunEffect ==
    /\ rpc = "effect"
    /\ LET cleaned == Alive(CleanupObservers(observers))
       IN observers' = IF node = NoNode THEN cleaned
                       ELSE cleaned \cup {NewObserver(rvOpts, node)}
    /\ rpc' = "active"
    /\ UNCHANGED <<inView, rvOpts, node, frozen, leftSeen, alwaysOnce, flips>>
    /\ UNCHANGED notReveal

\* The component re-renders with another options argument; the effect is
\* pending again when one of its dependencies changed.
ChangeOptions ==
    /\ rpc = "active"
    /\ \E a \in WellFormedArgs \ {rvOpts} :
        /\ rvOpts' = a
        /\ rpc' = IF Deps(a) # Deps(rvOpts) THEN "effect" ELSE rpc
        /\ alwaysOnce' = (alwaysOnce /\ OnceOf(a))
    /\ UNCHANGED <<inView, node, observers, frozen, leftSeen, flips>>
    /\ UNCHANGED notReveal

\* React attaches the ref to another element, or detaches it: setRef(node).
SetRef ==
    /\ rpc \in {"active", "effect"}
    /\ \E n \in (Nodes \cup {NoNode}) \ {node} : node' = n
    /\ UNCHANGED <<inView, rvOpts, observers, rpc, frozen, leftSeen, alwaysOnce, flips>>
    /\ UNCHANGED notReveal

\* The browser finds that element n entered or left the viewport and queues
\* an entry for every observer that observes it.
Intersect ==
    /\ \E n \in Nodes, flag \in BOOLEAN :
        /\ \E o \in observers : n \in o.targets /\ Len(o.queue) < MaxBatch
        /\ observers' =
             {IF n \in o.targets /\ Len(o.queue) < MaxBatch
              THEN [o EXCEPT !.queue = Append(@, [target |-> n, flag |-> flag])]
              ELSE o : o \in observers}
    /\ UNCHANGED <<inView, rvOpts, node, rpc, frozen, leftSeen, alwaysOnce, flips>>
    /\ UNCHANGED notReveal

\* The browser invokes the callback of an observer with its queued entries.
\* React discards setInView once the component has unmounted.
Notify ==
    /\ \E o \in observers :
        /\ o.queue # <<>>
        /\ LET r == HandleEntries(o, [inView |-> inView, targets |-> o.targets],
                                  o.queue)
           IN /\ inView' = IF rpc # "unmounted" THEN r.inView ELSE inView
              /\ observers' = Alive((observers \ {o}) \cup
                                {[o EXCEPT !.targets = r.targets, !.queue = <<>>]})
              /\ frozen' = IF o.once
                            THEN frozen \cup {o.queue[i].target :
                                               i \in {j \in 1..Len(o.queue) : o.queue[j].flag}}
                            ELSE frozen
              /\ leftSeen' = (leftSeen \/ \E i \in 1..Len(o.queue) :
                                /\ ~o.queue[i].flag
                                /\ (inView \/ \E j \in 1..(i - 1) : o.queue[j].flag))
              /\ flips' = IF inView' # inView /\ flips < MaxFlips
                          THEN flips + 1 ELSE flips
    /\ UNCHANGED <<rvOpts, node, rpc, alwaysOnce>>
    /\ UNCHANGED notReveal

\* The component unmounts: the effect's cleanup disconnects its observer and
\* React detaches the ref.
UnmountReveal ==
    /\ rpc \in {"active", "effect"}
    /\ observers' = Alive(CleanupObservers(observers))
    /\ node' = NoNode
    /\ rpc' = "unmounted"
    /\ UNCHANGED <<inView, rvOpts, frozen, leftSeen, alwaysOnce, flips>>
    /\ UNCHANGED notReveal

-----------------------------------------------------------------------------
(* The pure helpers: localize, useTranslation().t, buildRepeatedSlides *)

\* A property or argument that is not there.
Undefined == "<undefined>"

\* Strings a field of a LocalizedText may hold: missing, empty, some text.
FieldValues == {Undefined, "", "Brand", "Poster", "<ar:Brand>"}

\* The first argument of localize: undefined, null, or an object whose en and
\* ar fields each hold a string or are missing.
Texts ==
    {[kind |-> "undefined", en |-> Undefined, ar |-> Undefined],
     [kind |-> "null", en |-> Undefined, ar |-> Undefined]}
    \cup {[kind |-> "object", en |-> e, ar |-> a] : e \in FieldValues, a \in FieldValues}

\* a ?? b
Coalesce(a, b) == IF a \in {Undefined, Null} THEN b ELSE a

\* a || b
OrElse(a, b) == IF a \in {Undefined, Null, ""} THEN b ELSE a

\* Reading a property of undefined or null throws.
TypeError == "<TypeError>"

\* text[k]
Member(text, k) == IF text.kind # "object" THEN TypeError ELSE text[k]

\* Mutant of localize: no fallback to English.
localizeNoEnglish(text, lang) ==
    IF text.kind # "object" THEN "" ELSE Coalesce(text[lang], "")

\* Mutant of localize: || in place of ??.
localizeOrElse(text, lang) ==
    IF text.kind # "object" THEN "" ELSE OrElse(text[lang], OrElse(text.en, ""))

\* if (!text) return ''; return text[lang] ?? text.en ?? '';
localize(text, lang) ==
    IF text.kind # "object" THEN ""
    ELSE Coalesce(Member(text, lang), Coalesce(Member(text, "en"), ""))

\* translations.en; a string with Arabic letters is written <ar:key>.
TranslationsEn ==
    [ home |-> "Home",
      portfolio |-> "Portfolio",
      about |-> "About",
      services |-> "Services",
      contact |-> "Contact",
      title |-> "Eng.EmadAlddine",
      subtitle |-> "Senior Graphic Designer",
      heroTitle |-> "Creative Design Solutions",
      heroSubtitle |-> "Transforming ideas into impactful visual experiences with 9+ years of expertise",
      seeMyWork |-> "See My Work",
      hireMe |-> "Hire Me",
      aboutTitle |-> "About Me",
      aboutDescription |-> "Creative and experienced Branding and Logo Designer with over 9 years of expertise in developing impactful visual identities. Skilled in managing design teams, fostering collaboration, and ensuring the successful execution of creative projects.",
      experience |-> "Experience",
      education |-> "Education",
      skills |-> "Skills",
      servicesTitle |-> "My Services",
      servicesSubtitle |-> "Professional design solutions tailored to your needs",
      logoDesign |-> "Logo Design",
      logoDesc |-> "Creating memorable and impactful brand identities",
      branding |-> "Branding",
      brandingDesc |-> "Complete brand identity development and guidelines",
      printDesign |-> "Print Design",
      printDesc |-> "Professional printing materials and marketing collateral",
      uiuxDesign |-> "UI/UX Design",
      uiuxDesc |-> "User-centered interface and experience design",
      portfolioTitle |-> "My Portfolio",
      portfolioSubtitle |-> "Showcasing creative excellence across various design disciplines",
      allProjects |-> "All Projects",
      logos |-> "Logos",
      posters |-> "Posters",
      viewProject |-> "View Project",
      testimonialsTitle |-> "What Our Customers Say",
      contactTitle |-> "Get In Touch",
      contactSubtitle |-> "Let's discuss your next project",
      name |-> "Name",
      email |-> "Email",
      message |-> "Message",
      sendMessage |-> "Send Message",
      followMe |-> "Follow Me",
      allRightsReserved |-> "All rights reserved",
      english |-> "English",
      arabic |-> "<ar:arabic>" ]

\* translations.ar
TranslationsAr ==
    [ home |-> "<ar:home>",
      portfolio |-> "<ar:portfolio>",
      about |-> "<ar:about>",
      services |-> "<ar:services>",
      contact |-> "<ar:contact>",
      title |-> "<ar:title>",
      subtitle |-> "<ar:subtitle>",
      heroTitle |-> "<ar:heroTitle>",
      heroSubtitle |-> "<ar:heroSubtitle>",
      seeMyWork |-> "<ar:seeMyWork>",
      hireMe |-> "<ar:hireMe>",
      aboutTitle |-> "<ar:aboutTitle>",
      aboutDescription |-> "<ar:aboutDescription>",
      experience |-> "<ar:experience>",
      education |-> "<ar:education>",
      skills |-> "<ar:skills>",
      servicesTitle |-> "<ar:servicesTitle>",
      servicesSubtitle |-> "<ar:servicesSubtitle>",
      logoDesign |-> "<ar:logoDesign>",
      logoDesc |-> "<ar:logoDesc>",
      branding |-> "<ar:branding>",
      brandingDesc |-> "<ar:brandingDesc>",
      printDesign |-> "<ar:printDesign>",
      printDesc |-> "<ar:printDesc>",
      uiuxDesign |-> "<ar:uiuxDesign>",
      uiuxDesc |-> "<ar:uiuxDesc>",
      portfolioTitle |-> "<ar:portfolioTitle>",
      portfolioSubtitle |-> "<ar:portfolioSubtitle>",
      allProjects |-> "<ar:allProjects>",
      logos |-> "<ar:logos>",
      posters |-> "<ar:posters>",
      viewProject |-> "<ar:viewProject>",
      testimonialsTitle |-> "<ar:testimonialsTitle>",
      contactTitle |-> "<ar:contactTitle>",
      contactSubtitle |-> "<ar:contactSubtitle>",
      name |-> "<ar:name>",
      email |-> "<ar:email>",
      message |-> "<ar:message>",
      sendMessage |-> "<ar:sendMessage>",
      followMe |-> "<ar:followMe>",
      allRightsReserved |-> "<ar:allRightsReserved>",
      english |-> "English",
      arabic |-> "<ar:arabic>" ]

\* keyof typeof translations.en
TranslationKeys == DOMAIN TranslationsEn

\* The Arabic block a call may find for its key: as shipped, or with the key's
\* entry left out or empty, the two cases the || of t is written for.
ArEntries == {"shipped", "absent", "empty"}

\* translations[language][key]
Entry(lang, key, arEntry) ==
    IF lang = "en" THEN TranslationsEn[key]
    ELSE IF arEntry = "absent" THEN Undefined
    ELSE IF arEntry = "empty" THEN ""
    ELSE TranslationsAr[key]

\* Mutant of t: no fallback to the English block.
tNoFallback(lang, key, arEntry) == Entry(lang, key, arEntry)

\* t: key => translations[language][key] || translations.en[key]
t(lang, key, arEntry) ==
    OrElse(Entry(lang, key, arEntry), Entry("en", key, arEntry))

\* Image names of a project.
Images == {"1.jpg", "2.jpg", "3.jpg"}

\* All sequences over S of length at most n.
RECURSIVE SeqsUpTo(_, _)
SeqsUpTo(S, n) ==
    IF n = 0 THEN {<<>>}
    ELSE LET shorter == SeqsUpTo(S, n - 1)
         IN shorter \cup {Append(s, x) : s \in {q \in shorter : Len(q) = n - 1}, x \in S}

\* The images argument: missing, or an array of at most MaxItems names.
ImageArgs ==
    {[given |-> FALSE, list |-> <<>>]}
    \cup {[given |-> TRUE, list |-> s] : s \in SeqsUpTo(Images, MaxItems)}

\* Array.from({ length: times })
ArrayFromLength(times) == [i \in 1..times |-> Undefined]

\* arr.flatMap(() => base)
RECURSIVE FlatMapTo(_, _)
FlatMapTo(arr, images0) ==
    IF arr = <<>> THEN <<>> ELSE images0 \o FlatMapTo(Tail(arr), images0)

\* Mutant of buildRepeatedSlides: every image repeated in place.
RECURSIVE buildStutteredSlides(_, _)
buildStutteredSlides(images, times) ==
    IF images.list = <<>> THEN <<>>
    ELSE FlatMapTo(ArrayFromLength(times), <<Head(images.list)>>)
         \o buildStutteredSlides([images EXCEPT !.list = Tail(@)], times)

\* const base = images && images.length > 0 ? images : [];
\* return Array.from({ length: times }).flatMap(() => base);
buildRepeatedSlides(images, times) ==
    LET images0 == IF images.given /\ Len(images.list) > 0 THEN images.list ELSE <<>>
    IN FlatMapTo(ArrayFromLength(times), images0)

\* A call of localize with arguments from the bounded sets.
InitLocalize ==
    /\ callArgs \in {[text |-> x, lang |-> l] : x \in Texts, l \in {"en", "ar"}}
    /\ callResult = <<>>
    /\ callState = "called"

\* localize returns.
ReturnLocalize ==
    /\ callState = "called"
    /\ callResult' = localize(callArgs.text, callArgs.lang)
    /\ callState' = "returned"
    /\ UNCHANGED callArgs
    /\ UNCHANGED notCall

\* A call of useTranslation(language).t(key).
InitTranslate ==
    /\ callArgs \in {[language |-> l, key |-> k, arEntry |-> e] :
                        l \in {"en", "ar"}, k \in TranslationKeys, e \in ArEntries}
    /\ callResult = <<>>
    /\ callState = "called"

\* t returns.
ReturnTranslate ==
    /\ callState = "called"
    /\ callResult' = t(callArgs.language, callArgs.key, callArgs.arEntry)
    /\ callState' = "returned"
    /\ UNCHANGED callArgs
    /\ UNCHANGED notCall

\* A call of buildRepeatedSlides.
InitSlides ==
    /\ callArgs \in {[images |-> im, times |-> n] : im \in ImageArgs, n \in 0..MaxTimes}
    /\ callResult = <<>>
    /\ callState = "called"

\* buildRepeatedSlides returns.
ReturnSlides ==
    /\ callState = "called"
    /\ callResult' = buildRepeatedSlides(callArgs.images, callArgs.times)
    /\ callState' = "returned"
    /\ UNCHANGED callArgs
    /\ UNCHANGED notCall

-----------------------------------------------------------------------------
(* ContactPage: the contact form *)

\* setTimeout(() => { setStatus(success) ... }, 800), in milliseconds.
SuccessDelay == 800

\* setTimeout(() => setStatus(null), 2500)
ClearDelay == 2500

\* const CONTACT_EMAIL = 'info@emadalddine.com'
CONTACT_EMAIL == "info@emadalddine.com"

\* What a form field may hold.
FieldTexts == {"", "Layla"}

\* A time the user may let pass between two events, in milliseconds.
Waits == {1000}

\* useState<...>(null)
NoStatus == [type |-> "none", by |-> 0]

\* The address of the page itself, before any mail draft is opened.
PageLocation ==
    [scheme |-> "https", to |-> "", subject |-> "", name |-> "", email |-> "",
     message |-> ""]

\* Mutant of Invalid: the message is not looked at.
InvalidIgnoringMessage(fd) == fd.name = "" \/ fd.email = ""

\* !formData.name || !formData.email || !formData.message
Invalid(fd) == fd.name = "" \/ fd.email = "" \/ fd.message = ""

\* `mailto:${CONTACT_EMAIL}?subject=${subject}&body=${body}`, by its parts.
mailtoLink(fd) ==
    [scheme |-> "mailto", to |-> CONTACT_EMAIL,
     subject |-> IF fd.subject = "" THEN "Design Project Inquiry" ELSE fd.subject,
     name |-> fd.name, email |-> fd.email, message |-> fd.message]

\* The timer that runs next: the oldest of those whose time is up.
DueIndex(ts) ==
    CHOOSE i \in 1..Len(ts) : ts[i].left = 0 /\ \A j \in 1..(i - 1) : ts[j].left # 0

\* The shortest time left of the pending timers.
MinLeft(ts) ==
    CHOOSE d \in {ts[i].left : i \in 1..Len(ts)} : \A i \in 1..Len(ts) : d <= ts[i].left

\* ts without its i-th timer.
Without(ts, i) == SubSeq(ts, 1, i - 1) \o SubSeq(ts, i + 1, Len(ts))

\* The state after the first render.
InitContact ==
    /\ formData = [name |-> "", email |-> "", subject |-> "", message |-> ""]
    /\ status = NoStatus
    /\ timers = <<>>
    /\ href = PageLocation
    /\ opens = 0
    /\ submits = 0

\* handleInputChange: one field gets another value.
handleInputChange ==
    /\ \E f \in DOMAIN formData, v \in FieldTexts :
        /\ v # formData[f]
        /\ formData' = [formData EXCEPT ![f] = v]
    /\ UNCHANGED <<status, timers, href, opens, submits>>
    /\ UNCHANGED notContact

\* handleSubmit
handleSubmit ==
    /\ submits < MaxSubmits
    /\ submits' = submits + 1
    /\ IF Invalid(formData)
       THEN /\ status' = [type |-> "error", by |-> submits']
            /\ timers' = Append(timers, [left |-> ClearDelay, kind |-> "clear", by |-> submits'])
            /\ UNCHANGED <<href, opens>>
       ELSE /\ status' = [type |-> "info", by |-> submits']
            /\ href' = mailtoLink(formData)
            /\ opens' = opens + 1
            /\ timers' = Append(timers, [left |-> SuccessDelay, kind |-> "success", by |-> submits'])
    /\ UNCHANGED formData
    /\ UNCHANGED notContact

\* A setTimeout callback whose time is up runs.
TimerFires ==
    /\ \E i \in 1..Len(timers) : timers[i].left = 0
    /\ LET i == DueIndex(timers)
           f == timers[i]
       IN IF f.kind = "clear"
          THEN /\ status' = NoStatus
               /\ timers' = Without(timers, i)
          ELSE /\ status' = [type |-> "success", by |-> f.by]
               /\ timers' = Append(Without(timers, i),
                                   [left |-> ClearDelay, kind |-> "clear", by |-> f.by])
    /\ UNCHANGED <<formData, href, opens, submits>>
    /\ UNCHANGED notContact

\* Time passes, at most until the next timer is due.
Elapse ==
    /\ timers # <<>>
    /\ \A i \in 1..Len(timers) : timers[i].left # 0
    /\ \E d \in Waits \cup {MinLeft(timers)} :
        /\ d <= MinLeft(timers)
        /\ timers' = [i \in 1..Len(timers) |-> [timers[i] EXCEPT !.left = @ - d]]
    /\ UNCHANGED <<formData, status, href, opens, submits>>
    /\ UNCHANGED notContact

-----------------------------------------------------------------------------
(* FloatingSlideshow *)

\* What localStorage may hold under 'portfolio_slideshow_collapsed'.
StoredFlags == {Null, "true", "false", "yes"}

\* storage.getBoolean(key, fallback), on the stored value v.
getBoolean(v, fallback) == IF v = Null THEN fallback ELSE v = "true"

\* String(value)
BoolString(b) == IF b THEN "true" ELSE "false"

\* The id window.setInterval returns: one that no live timer has.
FreshId(ids) == CHOOSE n \in 1..(Cardinality(ids) + 1) : n \notin ids

\* Mutant of start: the previous timer is not cleared.
startNoClear(tm, api) ==
    IF api = 0 THEN tm
    ELSE LET id == FreshId(tm.intervals \cup {tm.ref})
         IN [ref |-> id, intervals |-> tm.intervals \cup {id}]

\* start(), of a render whose emblaApi is api, on tm = [ref, intervals]:
\* returns without an api, else clears the timer of timerRef and sets a new one.
start(tm, api) ==
    IF api = 0 THEN tm
    ELSE LET id == FreshId(tm.intervals \cup {tm.ref})
         IN [ref |-> id, intervals |-> (tm.intervals \ {tm.ref}) \cup {id}]

\* stop(): clears the timer of timerRef and forgets it.
stop(tm) ==
    IF tm.ref # 0 THEN [ref |-> 0, intervals |-> tm.intervals \ {tm.ref}] ELSE tm

\* The autoplay effect of a render with emblaApi api and isPlaying playing.
AutoplayEffect(tm, api, playing) ==
    IF api = 0 \/ ~playing THEN tm ELSE start(tm, api)

\* The cleanup that run of the effect returned, if it returned one.
AutoplayCleanup(tm, api, playing) ==
    IF api = 0 \/ ~playing THEN tm ELSE stop(tm)

\* A re-render from (api0, playing0) to (api1, playing1): when a dependency
\* changed, the old cleanup runs and then the effect.
Rerender(tm, api0, playing0, api1, playing1) ==
    IF api0 = api1 /\ playing0 = playing1 THEN tm
    ELSE AutoplayEffect(AutoplayCleanup(tm, api0, playing0), api1, playing1)

\* The timer state as one value.
Tm == [ref |-> timerRef, intervals |-> intervals]

\* The state after the first render and its effects: no carousel yet.
InitSlideshow ==
    /\ \E v \in StoredFlags : collapsed = getBoolean(v, FALSE)
    /\ isPlaying = TRUE
    /\ emblaApi = 0
    /\ timerRef = 0
    /\ intervals = {}
    /\ hovering = FALSE
    /\ fpc = "mounted"
    /\ slideIndex = 0
    /\ ticked = FALSE
    /\ slideStore = BoolString(collapsed)

\* The carousel (re)initialises on the viewport element: emblaApi is a new
\* instance and the autoplay effect runs again.
EmblaReady ==
    /\ fpc = "mounted"
    /\ ~collapsed
    /\ LET api == IF emblaApi = 1 THEN 2 ELSE 1
           tm == Rerender(Tm, emblaApi, isPlaying, api, isPlaying)
       IN /\ emblaApi' = api
          /\ timerRef' = tm.ref
          /\ intervals' = tm.intervals
    /\ slideIndex' = 0
    /\ UNCHANGED <<collapsed, isPlaying, hovering, fpc, ticked, slideStore>>
    /\ UNCHANGED notSlideshow

\* onClick of the collapse button: the expanded view and its viewport element
\* go away; the carousel hook may drop its instance.
Collapse ==
    /\ fpc = "mounted"
    /\ ~collapsed
    /\ collapsed' = TRUE
    /\ slideStore' = BoolString(TRUE)
    /\ hovering' = FALSE
    /\ \E api \in {0, emblaApi} :
        LET tm == Rerender(Tm, emblaApi, isPlaying, api, isPlaying)
        IN /\ emblaApi' = api
           /\ timerRef' = tm.ref
           /\ intervals' = tm.intervals
    /\ UNCHANGED <<isPlaying, fpc, slideIndex, ticked>>
    /\ UNCHANGED notSlideshow

\* onClick of the collapsed pill.
Expand ==
    /\ fpc = "mounted"
    /\ collapsed
    /\ collapsed' = FALSE
    /\ slideStore' = BoolString(FALSE)
    /\ UNCHANGED <<isPlaying, emblaApi, timerRef, intervals, hovering, fpc,
                   slideIndex, ticked>>
    /\ UNCHANGED notSlideshow

\* onClick of the play / pause button, and the render it causes.
TogglePlay ==
    /\ fpc = "mounted"
    /\ ~collapsed
    /\ isPlaying' = ~isPlaying
    /\ LET handled == IF isPlaying THEN stop(Tm) ELSE start(Tm, emblaApi)
           tm == Rerender(handled, emblaApi, isPlaying, emblaApi, ~isPlaying)
       IN /\ timerRef' = tm.ref
          /\ intervals' = tm.intervals
    /\ UNCHANGED <<collapsed, emblaApi, hovering, fpc, slideIndex, ticked, slideStore>>
    /\ UNCHANGED notSlideshow

\* onMouseEnter
onMouseEnter ==
    /\ fpc = "mounted"
    /\ ~collapsed
    /\ ~hovering
    /\ hovering' = TRUE
    /\ timerRef' = stop(Tm).ref
    /\ intervals' = stop(Tm).intervals
    /\ UNCHANGED <<collapsed, isPlaying, emblaApi, fpc, slideIndex, ticked, slideStore>>
    /\ UNCHANGED notSlideshow

\* onMouseLeave
onMouseLeave ==
    /\ fpc = "mounted"
    /\ ~collapsed
    /\ hovering
    /\ hovering' = FALSE
    /\ LET tm == IF isPlaying THEN start(Tm, emblaApi) ELSE Tm
       IN /\ timerRef' = tm.ref
          /\ intervals' = tm.intervals
    /\ UNCHANGED <<collapsed, isPlaying, emblaApi, fpc, slideIndex, ticked, slideStore>>
    /\ UNCHANGED notSlideshow

\* onPrev / onNext: emblaApi?.scrollPrev() / scrollNext(), with loop: true.
onPrevNext ==
    /\ fpc = "mounted"
    /\ ~collapsed
    /\ emblaApi # 0
    /\ \E d \in {1, SlideCount - 1} : slideIndex' = (slideIndex + d) % SlideCount
    /\ UNCHANGED <<collapsed, isPlaying, emblaApi, timerRef, intervals, hovering,
                   fpc, ticked, slideStore>>
    /\ UNCHANGED notSlideshow

\* An active interval fires: emblaApi.scrollNext().
IntervalFires ==
    /\ intervals # {}
    /\ slideIndex' = (slideIndex + 1) % SlideCount
    /\ ticked' = TRUE
    /\ UNCHANGED <<collapsed, isPlaying, emblaApi, timerRef, intervals, hovering,
                   fpc, slideStore>>
    /\ UNCHANGED notSlideshow

\* The component unmounts: the cleanup of the last effect run, if any.
UnmountSlideshow ==
    /\ fpc = "mounted"
    /\ fpc' = "unmounted"
    /\ hovering' = FALSE
    /\ LET tm == AutoplayCleanup(Tm, emblaApi, isPlaying)
       IN /\ timerRef' = tm.ref
          /\ intervals' = tm.intervals
    /\ UNCHANGED <<collapsed, isPlaying, emblaApi, slideIndex, ticked, slideStore>>
    /\ UNCHANGED notSlideshow

-----------------------------------------------------------------------------
(* PortfolioPage: filters and Load More paging *)

\* const PAGE_SIZE = 9
PAGE_SIZE == 9

\* type FilterKey
FilterKeys == {"all", "logos", "branding", "print", "uiux"}

\* The categories of the projects of data/projects.ts, ids 1 to 10.
ShippedCategories ==
    <<"branding", "logos", "branding", "logos", "branding", "logos", "print",
      "branding", "branding", "print">>

\* A collection of m projects: the shipped one, cut short or continued with
\* the same categories again.
Collection(m) ==
    [i \in 1..m |-> [id |-> i,
                     category |-> ShippedCategories[((i - 1) % Len(ShippedCategories)) + 1]]]

\* activeFilter === 'all' ? allProjects : allProjects.filter(p => p.category === activeFilter)
filteredProjects(ps, key) ==
    IF key = "all" THEN ps ELSE SelectSeq(ps, LAMBDA q : q.category = key)

\* arr.slice(0, n)
Slice(arr, n) == SubSeq(arr, 1, IF n < Len(arr) THEN n ELSE Len(arr))

\* filteredProjects.slice(0, visibleCount)
visibleProjects == Slice(filteredProjects(allProjects, activeFilter), visibleCount)

\* filteredProjects.length > visibleCount: the Load More button is rendered.
LoadMoreOffered == Len(filteredProjects(allProjects, activeFilter)) > visibleCount

\* Mutant of ResetVisible: the effect leaves the count alone.
ResetVisibleKeeps(n) == n

\* setVisibleCount(PAGE_SIZE), on the count n.
ResetVisible(n) == PAGE_SIZE

\* The state after the first render: the effect has not run yet.
InitPortfolio ==
    /\ activeFilter = "all"
    /\ visibleCount = PAGE_SIZE
    /\ allProjects \in {Collection(m) : m \in 0..MaxProjects}
    /\ ppc = "effect"
    /\ loadClicks = 0
    /\ totalClicks = 0

\* onClick of a filter button: setActiveFilter(filter.key).  A key equal to
\* the active one changes nothing and schedules no effect.
SetFilter ==
    /\ ppc = "idle"
    /\ \E key \in FilterKeys :
        /\ activeFilter' = key
        /\ ppc' = IF key # activeFilter THEN "effect" ELSE "idle"
        /\ loadClicks' = IF key # activeFilter THEN 0 ELSE loadClicks
    /\ UNCHANGED <<visibleCount, allProjects, totalClicks>>
    /\ UNCHANGED notPortfolio

\* The effect (deps [activeFilter]) and the render it causes.
ResetEffect ==
    /\ ppc = "effect"
    /\ visibleCount' = ResetVisible(visibleCount)
    /\ ppc' = "idle"
    /\ UNCHANGED <<activeFilter, allProjects, loadClicks, totalClicks>>
    /\ UNCHANGED notPortfolio

\* handleLoadMore, from the click on the Load More button.
handleLoadMore ==
    /\ ppc = "idle"
    /\ LoadMoreOffered
    /\ visibleCount' = visibleCount + PAGE_SIZE
    /\ loadClicks' = loadClicks + 1
    /\ totalClicks' = IF totalClicks < MaxClicks THEN totalClicks + 1 ELSE totalClicks
    /\ UNCHANGED <<activeFilter, allProjects, ppc>>
    /\ UNCHANGED notPortfolio

-----------------------------------------------------------------------------
(* ProjectDetailsPage and getProjectById *)

\* The hooks ProjectDetailsPage calls before `if (!project) return`:
\* useParams, useTheme, useEmblaCarousel, useState twice, useInView three
\* times, useCallback, useEffect.
HooksBeforeReturn == 10

\* Characters of a route parameter.
ParamChars == {"0", "1", "2", "9", "a"}

\* The route /portfolio/:id matches a non-empty segment.
Params == SeqsUpTo(ParamChars, MaxParamLen) \ {<<>>}

\* A JavaScript number: NaN, or a value.
NaN == [nan |-> TRUE, val |-> 0]
Num(n) == [nan |-> FALSE, val |-> n]

\* The value of a decimal digit.
DigitVal(ch) ==
    CASE ch = "0" -> 0 [] ch = "1" -> 1 [] ch = "2" -> 2 [] ch = "9" -> 9

\* Number(str) for a string of digits and letters: the decimal value when
\* every character is a digit, NaN otherwise.
RECURSIVE DecimalValue(_)
DecimalValue(str) ==
    IF str = <<>> THEN 0
    ELSE 10 * DecimalValue(SubSeq(str, 1, Len(str) - 1)) + DigitVal(str[Len(str)])

ToNumber(str) ==
    IF \E i \in 1..Len(str) : str[i] = "a" THEN NaN ELSE Num(DecimalValue(str))

\* x === y on numbers: NaN equals nothing.
StrictEquals(x, y) == ~x.nan /\ ~y.nan /\ x.val = y.val

\* export const projects
projects == Collection(Len(ShippedCategories))

\* The result of find() when no element matches: undefined.
NoProject == [found |-> FALSE, id |-> 0, category |-> ""]

\* projects.find((p) => p.id === id)
getProjectById(idnum) ==
    LET hits == SelectSeq(projects, LAMBDA q : StrictEquals(Num(q.id), idnum))
    IN IF hits = <<>> THEN NoProject
       ELSE [found |-> TRUE, id |-> hits[1].id, category |-> hits[1].category]

\* The hooks one render calls: useMemo comes after the early return.
HooksOf(proj) == IF proj.found THEN HooksBeforeReturn + 1 ELSE HooksBeforeReturn

\* What a render returns.
ViewOf(proj) == IF proj.found THEN "details" ELSE "not-found"

\* A fresh instance rendered for the route parameter str.
FirstRender(str) ==
    LET proj == getProjectById(ToNumber(str))
    IN /\ routeParam' = str
       /\ project' = proj
       /\ pageView' = ViewOf(proj)
       /\ hooksRun' = HooksOf(proj)
       /\ hooksPrev' = HooksOf(proj)
       /\ lightboxSrc' = 0

\* The state after the first render of the page.
InitDetails ==
    /\ routeParam \in Params
    /\ project = getProjectById(ToNumber(routeParam))
    /\ pageView = ViewOf(project)
    /\ hooksRun = HooksOf(project)
    /\ hooksPrev = HooksOf(project)
    /\ lightboxSrc = 0

\* The route parameter changes while the page stays mounted (the hash of the
\* address is edited): the same instance renders again.  React throws when a
\* render calls another number of hooks than the one before it.
ChangeParam ==
    /\ pageView # "crashed"
    /\ \E str \in Params \ {routeParam} :
        LET proj == getProjectById(ToNumber(str))
        IN /\ routeParam' = str
           /\ project' = proj
           /\ hooksPrev' = hooksRun
           /\ hooksRun' = HooksOf(proj)
           /\ pageView' = IF HooksOf(proj) = hooksRun THEN ViewOf(proj) ELSE "crashed"
    /\ UNCHANGED lightboxSrc
    /\ UNCHANGED notDetails

\* The page is loaded again, or entered from another route: a new instance.
Remount ==
    /\ \E str \in Params : FirstRender(str)
    /\ UNCHANGED notDetails

\* onClick of a slide: setLightboxSrc(src)
OpenLightbox ==
    /\ pageView = "details"
    /\ lightboxSrc = 0
    /\ lightboxSrc' = project.id
    /\ UNCHANGED <<routeParam, project, pageView, hooksRun, hooksPrev>>
    /\ UNCHANGED notDetails

\* onClick of the lightbox: setLightboxSrc(null)
CloseLightbox ==
    /\ pageView = "details"
    /\ lightboxSrc # 0
    /\ lightboxSrc' = 0
    /\ UNCHANGED <<routeParam, project, pageView, hooksRun, hooksPrev>>
    /\ UNCHANGED notDetails

-----------------------------------------------------------------------------
(* FloatingSlideshow: the slides memo *)

\* A string[] prop: image names, the empty string among them.
ImageLists == SeqsUpTo(Images \cup {""}, MaxItems)

\* images.filter(Boolean): the empty string is the falsy string.
FilterBoolean(arr) == SelectSeq(arr, LAMBDA x : x # "")

\* Array.from(new Set(arr)): a Set keeps the insertion order of first
\* occurrences.
RECURSIVE ArrayFromSet(_)
ArrayFromSet(arr) ==
    IF arr = <<>> THEN <<>>
    ELSE LET front == ArrayFromSet(SubSeq(arr, 1, Len(arr) - 1))
             last == arr[Len(arr)]
         IN IF \E i \in 1..Len(front) : front[i] = last THEN front
            ELSE Append(front, last)

\* const slides = useMemo(...): unique.length ? unique : images
slidesMemo(images0) ==
    LET unique == ArrayFromSet(FilterBoolean(images0))
    IN IF Len(unique) # 0 THEN unique ELSE images0

\* if (!slides?.length) return null
RendersSlideshow(list) == Len(list) # 0

\* A render of FloatingSlideshow with an images prop.
InitDedupe ==
    /\ callArgs \in {[images |-> im] : im \in ImageLists}
    /\ callResult = <<>>
    /\ callState = "called"

\* The render computes slides and returns.
ReturnDedupe ==
    /\ callState = "called"
    /\ callResult' = [slides |-> slidesMemo(callArgs.images),
                      rendered |-> RendersSlideshow(slidesMemo(callArgs.images))]
    /\ callState' = "returned"
    /\ UNCHANGED callArgs
    /\ UNCHANGED notCall

-----------------------------------------------------------------------------
(* Specifications *)

\* No slideshow is mounted.
SlideshowAbsent ==
    /\ collapsed = FALSE
    /\ isPlaying = TRUE
    /\ emblaApi = 0
    /\ timerRef = 0
    /\ intervals = {}
    /\ hovering = FALSE
    /\ fpc = "unmounted"
    /\ slideIndex = 0
    /\ ticked = FALSE
    /\ slideStore = Null

\* No portfolio page is mounted.
PortfolioAbsent ==
    /\ activeFilter = "all"
    /\ visibleCount = PAGE_SIZE
    /\ allProjects = <<>>
    /\ ppc = "unmounted"
    /\ loadClicks = 0
    /\ totalClicks = 0

\* No project details page is mounted.
DetailsAbsent ==
    /\ routeParam = <<>>
    /\ project = NoProject
    /\ pageView = "not-found"
    /\ hooksRun = 0
    /\ hooksPrev = 0
    /\ lightboxSrc = 0

\* The preference store alone: the scroll tracker is not mounted.
ScrollAbsent ==
    /\ triggered = FALSE
    /\ ticking = FALSE
    /\ threshold = DefaultThreshold
    /\ scrollY = 10
    /\ frames = <<>>
    /\ listeners = {}
    /\ gen = 0
    /\ spc = "unmounted"
    /\ dropped = 0
    /\ lastDropped = 0
    /\ lastFrame = NoFrame

\* The scroll tracker alone: the preference store holds its defaults.
PrefsAbsent ==
    /\ theme = "light"
    /\ language = "en"
    /\ queue = <<>>
    /\ pc = "idle"
    /\ error = FALSE
    /\ storage = [theme |-> "light", language |-> "en"]
    /\ storageMode = "ok"
    /\ doc = DocFor("light", "en")
    /\ storage0 = storage
    /\ initialized = TRUE
    /\ base = [theme |-> "light", language |-> "en"]
    /\ calls = [theme |-> 0, language |-> 0]
    /\ reloads = 0
    /\ expect = [theme |-> Null, language |-> Null, calls |-> calls]

\* No useInView is mounted.
RevealAbsent ==
    /\ inView = FALSE
    /\ rvOpts = NoArg
    /\ node = NoNode
    /\ observers = {}
    /\ rpc = "unmounted"
    /\ frozen = {}
    /\ leftSeen = FALSE
    /\ alwaysOnce = TRUE
    /\ flips = 0

\* No helper call is in progress.
CallAbsent ==
    /\ callArgs = <<>>
    /\ callResult = <<>>
    /\ callState = "none"

\* No contact page is mounted.
ContactAbsent ==
    /\ formData = [name |-> "", email |-> "", subject |-> "", message |-> ""]
    /\ status = NoStatus
    /\ timers = <<>>
    /\ href = PageLocation
    /\ opens = 0
    /\ submits = 0

NextPrefs ==
    \/ LoadEffect
    \/ ApplyEffect
    \/ Render
    \/ toggleTheme
    \/ toggleLanguage
    \/ Reload

NextScroll ==
    \/ Activate
    \/ ChangeThreshold
    \/ Scroll
    \/ Frame
    \/ Unmount

\* A ThemeProvider after its first render, no scroll tracker.
InitPrefsOnly == InitPrefs /\ ScrollAbsent /\ RevealAbsent /\ CallAbsent
    /\ ContactAbsent
    /\ SlideshowAbsent
    /\ PortfolioAbsent
    /\ DetailsAbsent

\* A useScrollTrigger after its first render, the preference store at rest.
InitScrollOnly == InitScroll /\ PrefsAbsent /\ RevealAbsent /\ CallAbsent
    /\ ContactAbsent
    /\ SlideshowAbsent
    /\ PortfolioAbsent
    /\ DetailsAbsent

\* A useInView after its first render.
InitRevealOnly == InitReveal /\ PrefsAbsent /\ ScrollAbsent /\ CallAbsent
    /\ ContactAbsent
    /\ SlideshowAbsent
    /\ PortfolioAbsent
    /\ DetailsAbsent

NextReveal ==
    \/ RunEffect
    \/ ChangeOptions
    \/ SetRef
    \/ Intersect
    \/ Notify
    \/ UnmountReveal

SpecReveal == InitRevealOnly /\ [][NextReveal]_vars

\* One call of localize, no component mounted.
InitLocalizeOnly == InitLocalize /\ PrefsAbsent /\ ScrollAbsent /\ RevealAbsent
    /\ ContactAbsent
    /\ SlideshowAbsent
    /\ PortfolioAbsent
    /\ DetailsAbsent

SpecLocalize == InitLocalizeOnly /\ [][ReturnLocalize]_vars

\* One call of t.
InitTranslateOnly == InitTranslate /\ PrefsAbsent /\ ScrollAbsent /\ RevealAbsent
    /\ ContactAbsent
    /\ SlideshowAbsent
    /\ PortfolioAbsent
    /\ DetailsAbsent

SpecTranslate == InitTranslateOnly /\ [][ReturnTranslate]_vars

\* One call of buildRepeatedSlides.
InitSlidesOnly == InitSlides /\ PrefsAbsent /\ ScrollAbsent /\ RevealAbsent
    /\ ContactAbsent
    /\ SlideshowAbsent
    /\ PortfolioAbsent
    /\ DetailsAbsent

SpecSlides == InitSlidesOnly /\ [][ReturnSlides]_vars

\* The contact page alone.
InitContactOnly ==
    InitContact /\ PrefsAbsent /\ ScrollAbsent /\ RevealAbsent /\ CallAbsent
    /\ SlideshowAbsent
    /\ PortfolioAbsent
    /\ DetailsAbsent

NextContact ==
    \/ handleInputChange
    \/ handleSubmit
    \/ TimerFires
    \/ Elapse

SpecContact == InitContactOnly /\ [][NextContact]_vars

\* Timers whose time is up do run, and time does pass.
SpecContactFair ==
    SpecContact /\ WF_vars(TimerFires) /\ WF_vars(Elapse)

\* The floating slideshow alone.
InitSlideshowOnly ==
    InitSlideshow /\ PrefsAbsent /\ ScrollAbsent /\ RevealAbsent /\ CallAbsent
    /\ ContactAbsent
    /\ PortfolioAbsent
    /\ DetailsAbsent

NextSlideshow ==
    \/ EmblaReady
    \/ Collapse
    \/ Expand
    \/ TogglePlay
    \/ onMouseEnter
    \/ onMouseLeave
    \/ onPrevNext
    \/ IntervalFires
    \/ UnmountSlideshow

SpecSlideshow == InitSlideshowOnly /\ [][NextSlideshow]_vars

\* The portfolio page alone.
InitPortfolioOnly ==
    InitPortfolio /\ PrefsAbsent /\ ScrollAbsent /\ RevealAbsent /\ CallAbsent
    /\ ContactAbsent
    /\ SlideshowAbsent
    /\ DetailsAbsent

NextPortfolio ==
    \/ SetFilter
    \/ ResetEffect
    \/ handleLoadMore

SpecPortfolio == InitPortfolioOnly /\ [][NextPortfolio]_vars

\* The project details page alone.
InitDetailsOnly ==
    InitDetails /\ PrefsAbsent /\ ScrollAbsent /\ RevealAbsent /\ CallAbsent
    /\ ContactAbsent
    /\ SlideshowAbsent
    /\ PortfolioAbsent

NextDetails ==
    \/ ChangeParam
    \/ Remount
    \/ OpenLightbox
    \/ CloseLightbox

SpecDetails == InitDetailsOnly /\ [][NextDetails]_vars

\* One render of the slideshow's slides memo.
InitDedupeOnly == InitDedupe /\ PrefsAbsent /\ ScrollAbsent /\ RevealAbsent
    /\ ContactAbsent
    /\ SlideshowAbsent
    /\ PortfolioAbsent
    /\ DetailsAbsent

SpecDedupe == InitDedupeOnly /\ [][ReturnDedupe]_vars

SpecPrefs == InitPrefsOnly /\ [][NextPrefs]_vars

SpecScroll == InitScrollOnly /\ [][NextScroll]_vars

-----------------------------------------------------------------------------
(* Claims about ThemeProvider, under SpecPrefs *)

ValidThemes == {"light", "dark"}
ValidLanguages == {"en", "ar"}

\* C1: when initialization has completed, a field whose storage entry was
\* absent or anything but one of its two valid values holds its default
\* ('light', 'en'), each field independently.
C1_InvalidEntryGivesDefault ==
    initialized =>
        /\ (storage0.theme \notin ValidThemes => base.theme = "light")
        /\ (storage0.language \notin ValidLanguages => base.language = "en")

\* C2: in every reachable state theme is 'light' or 'dark' and language is
\* 'en' or 'ar'.
C2_FieldsAlwaysValid ==
    theme \in ValidThemes /\ language \in ValidLanguages

\* C3: a fresh provider mounted on the storage a previous provider left
\* behind (its effects run) ends initialization with exactly the theme and
\* language the previous provider held.
C3_ReloadReproducesState ==
    (reloads > 0 /\ initialized) =>
        (base.theme = expect.theme /\ base.language = expect.language)

\* C3 witness: both fields were toggled, the page was reloaded, and the fresh
\* provider has finished initializing with the toggled values.
C3_Witness ==
    /\ reloads = 1
    /\ initialized
    /\ expect.calls = [theme |-> 1, language |-> 1]
    /\ expect.theme = "dark" /\ expect.language = "ar"
    /\ base.theme = "dark" /\ base.language = "ar"
    /\ theme = "dark" /\ language = "ar"

\* C4: a localStorage access that throws is never observable: the provider
\* raises no error and stays alive.
C4_StorageFailureNotObservable ==
    ~error /\ pc # "crashed"

\* C5: once two toggleTheme() calls made after initialization have been
\* rendered, theme equals its value after initialization; the same for
\* toggleLanguage() and language.
C5_ToggleTwiceRestores ==
    (initialized /\ pc = "idle" /\ queue = <<>>) =>
        /\ (calls.theme = 2 => theme = base.theme)
        /\ (calls.language = 2 => language = base.language)

\* C6: whenever the provider's effects have run, the document mirrors the
\* store: dir is 'rtl' exactly when language is 'ar' and 'ltr' otherwise,
\* lang equals language, and the root class equals theme.
C6_DocumentMirrorsStore ==
    pc = "idle" =>
        /\ doc.className = theme
        /\ doc.lang = language
        /\ (language = "ar" => doc.dir = "rtl")
        /\ (language # "ar" => doc.dir = "ltr")

\* C6 witness: after a toggle of each field the document shows dark / rtl / ar.
C6_Witness ==
    /\ pc = "idle"
    /\ calls.theme >= 1 /\ calls.language >= 1
    /\ theme = "dark" /\ language = "ar"
    /\ doc = [className |-> "dark", dir |-> "rtl", lang |-> "ar"]

-----------------------------------------------------------------------------
(* Claims about useScrollTrigger, under SpecScroll *)

\* A step in which the oldest pending frame callback runs.
FrameRuns == frames # <<>> /\ frames' = Tail(frames)

\* C7: at most one frame evaluation is ever pending; while one is pending
\* further notifications schedule nothing; and when it runs it is the only
\* one, and it evaluates the scroll offset of that moment.
C7_BurstCoalesced ==
    /\ [](Len(frames) <= 1)
    /\ [][(frames # <<>> /\ frames' # <<>>) => frames' = frames]_vars
    /\ [][FrameRuns =>
            /\ frames' = <<>>
            /\ lastFrame'.y = scrollY
            /\ (spc # "unmounted" => (triggered' <=> scrollY > lastFrame'.thr))]_vars

\* C7 witness: a frame ran after two notifications had been ignored, at an
\* offset other than the one reported when it was requested, and set Above.
C7_Witness ==
    /\ lastDropped >= 2
    /\ lastFrame.by = "scroll"
    /\ lastFrame.mounted
    /\ lastFrame.y # lastFrame.y0
    /\ lastFrame.y > lastFrame.thr /\ ~(lastFrame.y0 > lastFrame.thr)
    /\ triggered

\* C8: a frame evaluation whose effect has been cleaned up (its listener is no
\* longer registered) does not change the tracker's state.
C8_NoUpdateAfterUnbind ==
    [][(FrameRuns /\ Head(frames).gen \notin {l.gen : l \in listeners})
        => triggered' = triggered]_vars

\* C9: every evaluation of a mounted tracker sets the state to Above exactly
\* when the scroll offset is strictly greater than the threshold its
\* activation was configured with, which is the current threshold argument
\* while that activation is the active one.
C9_ThresholdRule ==
    [][(FrameRuns /\ spc # "unmounted") =>
        /\ (triggered' <=> scrollY > Head(frames).thr)
        /\ (scrollY = Head(frames).thr => ~triggered')
        /\ ((spc = "active" /\ Head(frames).gen = gen)
               => (triggered' <=> scrollY > threshold))]_vars

\* C9 witness: with threshold 400 an evaluation at offset 401 gave Above.
C9_Witness ==
    /\ lastFrame.mounted
    /\ lastFrame.thr = BackToTopThreshold
    /\ lastFrame.y = 401
    /\ threshold = BackToTopThreshold
    /\ triggered

\* C10 as stated: right after every activation the state is already correct.
C10_StateCorrectRightAfterActivation ==
    [][gen' = gen + 1 => (triggered' <=> scrollY' > threshold')]_vars

\* C10 amended: on mount the tracker requests one frame evaluation at once,
\* without any scroll notification; its state is still false right after
\* activation, and that frame, when it runs while the component is mounted,
\* sets it to (offset at that moment > threshold given at mount).
C10_ActivationSchedulesEvaluation ==
    /\ [][(gen = 0 /\ gen' = 1) =>
            /\ triggered' = FALSE
            /\ ticking'
            /\ frames' = <<[thr |-> threshold, gen |-> 1, y0 |-> scrollY,
                            by |-> "activate"]>>]_vars
    /\ [][(FrameRuns /\ Head(frames).by = "activate" /\ Head(frames).gen = 1
              /\ spc # "unmounted")
            => (triggered' <=> scrollY > Head(frames).thr)]_vars

\* C10 witness: the frame requested by the mount activation has run and set
\* Above, the page having been scrolled past the threshold from the start.
C10_Witness ==
    /\ gen = 1
    /\ spc = "active"
    /\ lastFrame.by = "activate"
    /\ lastFrame.mounted
    /\ lastFrame.y0 > lastFrame.thr
    /\ frames = <<>>
    /\ triggered

-----------------------------------------------------------------------------
(* Claims about useInView, under SpecReveal *)

\* A step in which an observer's callback runs with its queued entries (the
\* only other steps that empty a queue are cleanups, which change rpc).
CallbackRuns ==
    /\ rpc' = rpc
    /\ \E o \in observers : o.queue # <<>>
    /\ \A o \in observers' : o.queue = <<>>

\* C11: while once has always been true, inView, once true, is never set back
\* to false by any step.
C11_OnceNeverReverts ==
    [][(alwaysOnce' /\ inView) => inView']_vars

\* C11 witness: under once, a 'left' entry was handled while inView was true,
\* and inView is still true.
C11_Witness ==
    alwaysOnce /\ inView /\ leftSeen

\* C12: a callback of a once=false observer leaves inView equal to the flag of
\* the last entry it was given, the entries being handled in the order reported.
C12_TracksInOrder ==
    [][\A o \in observers :
        (CallbackRuns /\ o.queue # <<>> /\ ~o.once /\ rpc # "unmounted")
            => inView' = o.queue[Len(o.queue)].flag]_vars

\* C12 witness: with once=false, inView went true, false, true.
C12_Witness ==
    /\ ~OnceOf(rvOpts)
    /\ \A o \in observers : ~o.once
    /\ rpc = "active"
    /\ flips >= 3
    /\ leftSeen
    /\ inView

\* C13: while once has always been true, an element that has been seen
\* intersecting is not observed again.
C13_FrozenStaysUnobserved ==
    alwaysOnce => \A o \in observers : o.targets \cap frozen = {}

\* C14: when no effect is pending, the tracker observes the element the ref is
\* bound to (unless inView is already true) and no other element.
C14_ObservesBoundElement ==
    rpc = "active" =>
        /\ \A o \in observers : o.targets \subseteq {node}
        /\ ((node # NoNode /\ ~inView) => \E o \in observers : node \in o.targets)

\* C15: after unmount no observer observes anything or has entries to deliver,
\* and no step changes inView.
C15_UnmountDeregisters ==
    /\ [](rpc = "unmounted" => observers = {})
    /\ [][rpc = "unmounted" => inView' = inView]_vars

\* C15 witness: a tracker that had observed its element and seen it enter has
\* unmounted.
C15_Witness ==
    rpc = "unmounted" /\ inView /\ observers = {} /\ frozen # {}

\* C16: an observer is created with threshold 0.15 whenever the caller supplies
\* no threshold, and with once = true whenever the caller supplies no once.
C16_DefaultsApplied ==
    [][(rpc = "effect" /\ rpc' = "active") =>
        \A o \in observers' : o.current =>
            /\ (~(rvOpts.given /\ rvOpts.hasThr) => o.thr = DefaultRevealThreshold)
            /\ (~(rvOpts.given /\ rvOpts.hasOnce) => o.once)]_vars

-----------------------------------------------------------------------------
(* Claims about the pure helpers *)

\* C17: localize returns text[lang] when that is defined, otherwise text.en
\* when that is defined, otherwise ''; for a null or undefined text it returns ''.
C17_LocalizeFallbackChain ==
    callState = "returned" =>
        LET text == callArgs.text
            lang == callArgs.lang
        IN callResult =
            IF text.kind # "object" THEN ""
            ELSE IF text[lang] # Undefined THEN text[lang]
            ELSE IF text.en # Undefined THEN text.en
            ELSE ""

\* C17 witness: an Arabic call on a text without ar returned the English text.
C17_Witness ==
    /\ callState = "returned"
    /\ callArgs.lang = "ar"
    /\ callArgs.text.kind = "object"
    /\ callArgs.text.ar = Undefined
    /\ callArgs.text.en = "Brand"
    /\ callResult = "Brand"

\* C18: when text[lang] is the empty string localize returns the empty string,
\* whatever text.en holds.
C18_EmptyIsNotAbsent ==
    (/\ callState = "returned"
     /\ callArgs.text.kind = "object"
     /\ callArgs.text[callArgs.lang] = "")
        => callResult = ""

\* C18 witness: an Arabic call on a text with ar = '' and a non-empty en
\* returned ''.
C18_Witness ==
    /\ callState = "returned"
    /\ callArgs.lang = "ar"
    /\ callArgs.text.kind = "object"
    /\ callArgs.text.ar = ""
    /\ callArgs.text.en = "Poster"
    /\ callResult = ""

\* C19: for every key of the table and both languages t returns a string, and
\* when the language's own entry is absent it returns what the English lookup
\* returns.
C19_TranslateTotal ==
    callState = "returned" =>
        /\ callResult \notin {Undefined, Null}
        /\ (Entry(callArgs.language, callArgs.key, callArgs.arEntry) = Undefined
            => callResult = t("en", callArgs.key, callArgs.arEntry))

\* C19 witness: an Arabic lookup whose entry is absent returned the English
\* text.
C19_Witness ==
    /\ callState = "returned"
    /\ callArgs.language = "ar"
    /\ callArgs.arEntry = "absent"
    /\ callArgs.key = "seeMyWork"
    /\ callResult = "See My Work"

-----------------------------------------------------------------------------
(* Further claims about useScrollTrigger and ThemeProvider *)

\* C26: once the effect of the latest threshold has run and no frame
\* evaluation is pending, so that nothing more happens until the next scroll
\* notification, the state equals (scroll offset > current threshold).
C26_SettlesOnNewThreshold ==
    (spc = "active" /\ frames = <<>>) => (triggered <=> scrollY > threshold)

\* C28: while no toggle has been called since a provider mounted on valid
\* entries, localStorage holds the entries it held at mount.
C28_StartupKeepsPersisted ==
    (/\ storage0.theme \in ValidThemes
     /\ storage0.language \in ValidLanguages
     /\ calls = [theme |-> 0, language |-> 0])
        => storage = storage0

-----------------------------------------------------------------------------
(* Claims about the contact form *)

\* A step that handles a submit.
SubmitHandled == submits' = submits + 1

\* A step in which a timer callback runs.
TimerRuns ==
    /\ \E i \in 1..Len(timers) : timers[i].left = 0
    /\ submits' = submits
    /\ formData' = formData
    /\ timers' # timers

\* C22: a submit with name, email or message empty opens no mail draft and
\* sets an error status; a mail draft is opened only by a submit with all
\* three non-empty; an error status is eventually cleared back to none.
C22_InvalidSubmitRejected ==
    /\ [][(SubmitHandled /\ (formData.name = "" \/ formData.email = "" \/ formData.message = ""))
            => (href' = href /\ opens' = opens /\ status'.type = "error")]_vars
    /\ [][(opens' # opens \/ href' # href)
            => (/\ SubmitHandled
                /\ formData.name # "" /\ formData.email # "" /\ formData.message # ""
                /\ href'.scheme = "mailto")]_vars
    /\ (status.type = "error") ~> (status.type = "none")

\* C22 witness: only invalid submits were made, and the error status of the
\* last one has been cleared.
C22_Witness ==
    /\ submits >= 1
    /\ opens = 0
    /\ href = PageLocation
    /\ timers = <<>>
    /\ status = NoStatus

\* C27: no timer callback changes the status while a timer scheduled by the
\* submit that set the status still has time left.
C27_StatusStaysUntilOwnTimer ==
    [][(TimerRuns /\ status' # status)
        => ~\E i \in 1..Len(timers) : timers[i].by = status.by /\ timers[i].left > 0]_vars

-----------------------------------------------------------------------------
(* Claims about FloatingSlideshow *)

\* C23: while the pointer is inside the expanded slideshow no autoplay
\* interval timer is active.
C23_PausedWhileHovering ==
    hovering => intervals = {}

\* C30: at most one autoplay interval timer is active, none is active while
\* isPlaying is false, and none is active after unmount.
C30_TimerDiscipline ==
    /\ Cardinality(intervals) <= 1
    /\ (~isPlaying => intervals = {})
    /\ (fpc = "unmounted" => intervals = {})

\* C30 witness: a playing slideshow whose autoplay timer has fired has
\* unmounted, and no timer is left.
C30_Witness ==
    /\ fpc = "unmounted"
    /\ ticked
    /\ isPlaying
    /\ timerRef = 0
    /\ intervals = {}

-----------------------------------------------------------------------------
(* Claims about PortfolioPage *)

\* The projects matching the active filter, in the order of the collection.
Matching ==
    SelectSeq(allProjects,
              LAMBDA q : activeFilter = "all" \/ q.category = activeFilter)

\* C24: with the effects run, visibleCount is 9 * (1 + Load More clicks since
\* the active filter last changed), the cards shown are the first
\* min(visibleCount, n) of the n matching projects, and Load More is offered
\* exactly when n > visibleCount.
C24_Paging ==
    ppc = "idle" =>
        LET n == Len(Matching)
            shown == IF visibleCount < n THEN visibleCount ELSE n
        IN /\ visibleCount = 9 * (1 + loadClicks)
           /\ visibleProjects = [i \in 1..shown |-> Matching[i]]
           /\ (LoadMoreOffered <=> n > visibleCount)

\* C24 witness: after Load More clicks and a filter change, one more click
\* showed all ten branding projects.
C24_Witness ==
    /\ ppc = "idle"
    /\ activeFilter = "branding"
    /\ totalClicks >= 2
    /\ loadClicks = 1
    /\ visibleCount = 18
    /\ Len(visibleProjects) = 10

-----------------------------------------------------------------------------
(* Claims about ProjectDetailsPage *)

\* C21: the lookup of the latest render returned the project whose id equals
\* Number(params.id) when there is one, and undefined otherwise, NaN included,
\* in which case the page shows its not-found state.
C21_LookupTotal ==
    LET id == ToNumber(routeParam)
        present == {i \in 1..Len(projects) : ~id.nan /\ projects[i].id = id.val}
    IN /\ (present # {} => (project.found /\ project.id = id.val))
       /\ (present = {} => (~project.found /\ pageView = "not-found"))

\* C29: every render of one instance calls as many hooks as the render
\* before it.
C29_SameHooksEveryRender ==
    hooksRun = hooksPrev

-----------------------------------------------------------------------------
(* Claims about the slides memo *)

\* The position of the first occurrence of x in arr.
FirstIndex(arr, x) == CHOOSE i \in 1..Len(arr) : arr[i] = x /\ \A j \in 1..(i - 1) : arr[j] # x

\* C25: for every images list the slides contain no empty entry and no name
\* twice, hold exactly the non-empty names of the list in the order of their
\* first occurrences, and the component renders exactly when the list has a
\* non-empty name.
C25_SlidesDedupedAndSanitized ==
    callState = "returned" =>
        LET given == callArgs.images
            list == callResult.slides
            valid == {given[i] : i \in 1..Len(given)} \ {""}
        IN /\ \A i \in 1..Len(list) : list[i] # ""
           /\ \A i, j \in 1..Len(list) : list[i] = list[j] => i = j
           /\ {list[i] : i \in 1..Len(list)} = valid
           /\ \A i, j \in 1..Len(list) :
                (i < j /\ list[i] \in valid /\ list[j] \in valid)
                    => FirstIndex(given, list[i]) < FirstIndex(given, list[j])
           /\ (callResult.rendered <=> valid # {})

=============================================================================
